---- MODULE Spec2Model ----
(***************************************************************************)
(* Model of trustfall_core/src/filesystem_interpreter.rs: the filesystem   *)
(* adapter (FilesystemInterpreter), its origin iterator, its two directory *)
(* scans, the per-context edge resolver and property resolution.           *)
(*                                                                         *)
(* Rust Strings are modelled as sequences of one-character strings, so     *)
(* that path joining and extension splitting are computed character by     *)
(* character.  Option<T> is the record None / Some(x).  A panic (unwrap,   *)
(* assert!, unreachable!, todo!, unimplemented!) sets status to            *)
(* "panicked", records the site in panic_at, and stops every operation.    *)
(***************************************************************************)
EXTENDS Integers, Sequences, FiniteSets, TLC

VARIABLES
    origin,       \* FilesystemInterpreter.origin (Rc<String>)
    fs,           \* the file system: real path -> directory listing
    status,       \* "ok" | "panicked"
    panic_at,     \* the site of the panic, "" while status = "ok"
    origin_iter,  \* the OriginIterator returned by resolve_starting_vertices
    origin_out,   \* what the pulls on origin_iter returned, in order
    resolver,     \* the EdgeResolverIterator returned by resolve_neighbors
    pairs,        \* the (context, neighbor-sequence) pairs the resolver returned
    handles,      \* number of open directory handles (ReadDir values alive)
    opens,        \* number of fs::read_dir calls made so far by the live resolver
    reached,      \* the vertices handed to the interpreter so far
    prop_iter,    \* the iterator returned by resolve_property
    prop_out      \* the (context, value) pairs pulled from prop_iter

vars == <<origin, fs, status, panic_at, origin_iter, origin_out, resolver,
          pairs, handles, opens, reached, prop_iter, prop_out>>

-----------------------------------------------------------------------------
(* Bounds of the model *)

MaxContexts == 2

MaxOriginPulls == 3

MaxListing == 2

MaxPropContexts == 2

-----------------------------------------------------------------------------
(* Option<T> *)

None == [some |-> FALSE]

Some(x) == [some |-> TRUE, val |-> x]

(* Strings *)

EmptyStr == <<>>

Slash == "/"

Dot == "."

OriginName == <<"<", "o", "r", "i", "g", "i", "n", ">">>

DirectoryStr == <<"D", "i", "r", "e", "c", "t", "o", "r", "y">>

FileStr == <<"F", "i", "l", "e">>

DotGit == <<".", "g", "i", "t">>

DotVscode == <<".", "v", "s", "c", "o", "d", "e">>

Target == <<"t", "a", "r", "g", "e", "t">>

(* FieldValue *)

Null == [fv |-> "Null"]

String(s) == [fv |-> "String", s |-> s]

(* FilesystemVertex *)

DirectoryVertex(name, path) == [tag |-> "Directory", name |-> name, path |-> path]

FileVertex(name, extension, path) ==
    [tag |-> "File", name |-> name, extension |-> extension, path |-> path]

-----------------------------------------------------------------------------
(* std::path::PathBuf::push, as used by buf.extend([..]) *)

PathPush(buf, p) ==
    IF p # <<>> /\ p[1] = Slash THEN p
    ELSE IF buf # <<>> /\ buf[Len(buf)] # Slash THEN buf \o <<Slash>> \o p
    ELSE buf \o p

(* A faulty variant of JoinPath: joins with a separator even when the buffer is empty *)
JoinPathAlwaysSep(a, b) == a \o <<Slash>> \o b

(* let mut buf = PathBuf::new(); buf.extend([a, b]); buf.to_str().unwrap() *)
JoinPath(a, b) == PathPush(PathPush(<<>>, a), b)

(* The index of the last '.' in name, 0 when there is none *)
LastDot(name) ==
    LET dots == {i \in 1..Len(name) : name[i] = Dot}
    IN IF dots = {} THEN 0 ELSE CHOOSE i \in dots : \A j \in dots : j <= i

(* A faulty variant of Extension: the plain "after the last dot" rule *)
ExtensionAfterLastDot(name) ==
    IF LastDot(name) = 0 THEN None
    ELSE Some(SubSeq(name, LastDot(name) + 1, Len(name)))

(* A faulty variant of Extension: the name is split at its first '.' *)
ExtensionAfterFirstDot(name) ==
    LET dots == {i \in 1..Len(name) : name[i] = Dot}
        first == CHOOSE i \in dots : \A j \in dots : i <= j
    IN IF dots = {} \/ LastDot(name) = 1 THEN None
       ELSE Some(SubSeq(name, first + 1, Len(name)))

(* Path::new(&name).extension(): none for "..", for a name without '.',  *)
(* and for a name whose only '.' is its first character                  *)
Extension(name) ==
    IF name = <<Dot, Dot>> THEN None
    ELSE IF LastDot(name) = 0 THEN None
    ELSE IF LastDot(name) = 1 THEN None
    ELSE Some(SubSeq(name, LastDot(name) + 1, Len(name)))

-----------------------------------------------------------------------------
(* Directory entries, as std::fs::ReadDir hands them out.  kind is          *)
(*   "read_err"  the listing item is Err(_)                                 *)
(*   "meta_err"  dir_entry.metadata() is Err(_)                             *)
(*   "file"      metadata.is_file()                                         *)
(*   "dir"       metadata.is_dir()                                          *)
(*   "other"     metadata is readable, neither file nor directory (symlink) *)
(* utf8 tells whether file_name().to_str() is Some.                         *)

Entry(name, kind) == [name |-> name, kind |-> kind, utf8 |-> TRUE]

NonUtf8Entry(name, kind) == [name |-> name, kind |-> kind, utf8 |-> FALSE]

ReadErr == [name |-> <<>>, kind |-> "read_err", utf8 |-> TRUE]

(* A faulty variant of EntryIsFile: every entry with readable metadata is taken *)
EntryIsFileAnyKind(e) == e.kind \in {"file", "dir", "other"}

(* metadata.is_file() *)
EntryIsFile(e) == e.kind = "file"

(* metadata.is_dir() *)
EntryIsDir(e) == e.kind = "dir"

(* A faulty variant of IsExcluded: one of the three names is forgotten *)
IsExcludedNoTarget(name) == name = DotGit \/ name = DotVscode

(* A faulty variant of IsExcluded: no name is excluded *)
IsExcludedNever(name) == FALSE

(* name == ".git" || name == ".vscode" || name == "target" *)
IsExcluded(name) == name = DotGit \/ name = DotVscode \/ name = Target

(* The result of one call of next() on a scan: the number of listing items   *)
(* consumed so far, and Some(vertex), None (end of sequence) or a panic.     *)
(* A faulty variant of Yield: one more listing item is read ahead *)
YieldAhead(pos, v) == [pos |-> pos + 1, outcome |-> "Some", vertex |-> Some(v)]

Yield(pos, v) == [pos |-> pos, outcome |-> "Some", vertex |-> Some(v)]

EndOfScan(pos) == [pos |-> pos, outcome |-> "None", vertex |-> None]

ScanPanic(pos) == [pos |-> pos, outcome |-> "Panic", vertex |-> None]

(* DirectoryContainsFileIterator::next: pos items of listing are consumed *)
RECURSIVE FileIterNext(_, _, _)
FileIterNext(directory, listing, pos) ==
    IF pos >= Len(listing) THEN EndOfScan(pos)
    ELSE LET e == listing[pos + 1] IN
         IF e.kind = "read_err" THEN FileIterNext(directory, listing, pos + 1)
         ELSE IF e.kind = "meta_err" THEN FileIterNext(directory, listing, pos + 1)
         ELSE IF EntryIsFile(e) THEN
              IF ~e.utf8 THEN ScanPanic(pos + 1)
              ELSE Yield(pos + 1,
                         FileVertex(e.name, Extension(e.name),
                                    JoinPath(directory.path, e.name)))
         ELSE FileIterNext(directory, listing, pos + 1)

(* SubdirectoryIterator::next *)
RECURSIVE SubdirIterNext(_, _, _)
SubdirIterNext(directory, listing, pos) ==
    IF pos >= Len(listing) THEN EndOfScan(pos)
    ELSE LET e == listing[pos + 1] IN
         IF e.kind = "read_err" THEN SubdirIterNext(directory, listing, pos + 1)
         ELSE IF e.kind = "meta_err" THEN SubdirIterNext(directory, listing, pos + 1)
         ELSE IF EntryIsDir(e) THEN
              IF ~e.utf8 THEN ScanPanic(pos + 1)
              ELSE IF IsExcluded(e.name) THEN SubdirIterNext(directory, listing, pos + 1)
              ELSE Yield(pos + 1,
                         DirectoryVertex(e.name, JoinPath(directory.path, e.name)))
         ELSE SubdirIterNext(directory, listing, pos + 1)

(* The real path a scan opens: buf.extend([&*origin, &directory.path]) *)
ScanPath(o, directory) == JoinPath(o, directory.path)

(* The operating system's view of a path: a trailing separator is ignored *)
RealPath(p) ==
    IF Len(p) > 1 /\ p[Len(p)] = Slash THEN SubSeq(p, 1, Len(p) - 1) ELSE p

(* fs::read_dir(buf): Ok exactly when the path names a directory that opens *)
ReadDirOk(f, p) == RealPath(p) \in DOMAIN f

ReadDirListing(f, p) == f[RealPath(p)]

-----------------------------------------------------------------------------
(* DataContext<V>: row stands for everything a context carries besides its   *)
(* active vertex; active_vertex is context.active_vertex()                   *)

Ctx(row, active) == [row |-> row, active_vertex |-> active]

ContextStreams(choices, n) ==
    UNION {{[i \in 1..k |-> Ctx(i, s[i])] : s \in [1..k -> choices]} : k \in 0..n}

(* A faulty variant of ContextsNext: the stream is consumed from the wrong end *)
ContextsNextFromBack(contexts) ==
    [item |-> contexts[Len(contexts)],
     rest |-> SubSeq(contexts, 1, Len(contexts) - 1)]

(* self.contexts.next() on a non-empty stream *)
ContextsNext(contexts) == [item |-> Head(contexts), rest |-> Tail(contexts)]

-----------------------------------------------------------------------------
(* OriginIterator *)

NoOriginIter == [state |-> "none", produced |-> FALSE]

(* OriginIterator::new(vertex), with the vertex resolve_starting_vertices builds *)
NewOriginIter == [state |-> "live", produced |-> FALSE]

OriginVertex == DirectoryVertex(OriginName, EmptyStr)

(* A faulty variant of OriginIterNext: the produced flag is never set *)
OriginIterNextNeverProduced(it) ==
    [iter |-> it, item |-> Some(OriginVertex)]

(* OriginIterator::next *)
OriginIterNext(it) ==
    IF it.produced THEN [iter |-> it, item |-> None]
    ELSE [iter |-> [it EXCEPT !.produced = TRUE], item |-> Some(OriginVertex)]

-----------------------------------------------------------------------------
(* EdgeResolverIterator and the neighbor sequences it pairs contexts with *)

NoResolver ==
    [state |-> "none", edge_resolver |-> "", contexts |-> <<>>, input |-> <<>>]

(* EdgeResolverIterator::new(origin, contexts, edge_resolver); input keeps the *)
(* stream the call was given, state is "exhausted" once next() returned None   *)
NewResolver(contexts, edge_resolver) ==
    [state |-> "live", edge_resolver |-> edge_resolver,
     contexts |-> contexts, input |-> contexts]

(* (context, Box::new(iter::empty())) *)
EmptyPair(context) ==
    [ctx |-> context, kind |-> "empty", directory |-> None, path |-> <<>>,
     pos |-> 0, yielded |-> <<>>, done |-> FALSE, dropped |-> FALSE]

(* A faulty variant of ScanPair: the whole listing is read at construction *)
ScanPairReadsAhead(context, kind, directory, path) ==
    [ctx |-> context, kind |-> kind, directory |-> Some(directory), path |-> path,
     pos |-> Len(ReadDirListing(fs, path)), yielded |-> <<>>, done |-> FALSE,
     dropped |-> FALSE]

(* (context, Box::from(XIterator::new(origin, directory_vertex))), the         *)
(* directory at path being open; kind is "file" for                            *)
(* DirectoryContainsFileIterator and "subdir" for SubdirectoryIterator         *)
ScanPair(context, kind, directory, path) ==
    [ctx |-> context, kind |-> kind, directory |-> Some(directory), path |-> path,
     pos |-> 0, yielded |-> <<>>, done |-> FALSE, dropped |-> FALSE]

HandlerKind(edge_resolver) ==
    IF edge_resolver = "directory_contains_file_handler" THEN "file" ELSE "subdir"

(* A faulty variant of ReleasedHandles: the handle is closed only by exhaustion *)
ReleasedHandlesWhenDone(scan) ==
    IF scan.kind # "empty" /\ scan.done THEN 1 ELSE 0

(* Dropping a neighbor sequence drops its ReadDir field, which closes the    *)
(* directory; iter::Empty holds none                                         *)
ReleasedHandles(scan) == IF scan.kind = "empty" THEN 0 ELSE 1

-----------------------------------------------------------------------------
(* Property resolution: the closure each (type name, property name) maps     *)
(* over the contexts.  A closure returns a value or panics (unreachable!).   *)

Value(v) == [ok |-> TRUE, value |-> v]

Unreachable == [ok |-> FALSE, value |-> Null]

DirectoryName(active) ==
    IF ~active.some THEN Value(Null)
    ELSE IF active.val.tag = "Directory" THEN Value(String(active.val.name))
    ELSE Unreachable

DirectoryPath(active) ==
    IF ~active.some THEN Value(Null)
    ELSE IF active.val.tag = "Directory" THEN Value(String(active.val.path))
    ELSE Unreachable

(* A faulty variant of DirectoryTypename: the tag of the actual variant is reported *)
DirectoryTypenameOfVariant(active) ==
    IF ~active.some THEN Value(Null)
    ELSE IF active.val.tag = "Directory" THEN Value(String(DirectoryStr))
    ELSE Value(String(FileStr))

DirectoryTypename(active) ==
    IF ~active.some THEN Value(Null) ELSE Value(String(DirectoryStr))

FileName(active) ==
    IF ~active.some THEN Value(Null)
    ELSE IF active.val.tag = "File" THEN Value(String(active.val.name))
    ELSE Unreachable

FilePath(active) ==
    IF ~active.some THEN Value(Null)
    ELSE IF active.val.tag = "File" THEN Value(String(active.val.path))
    ELSE Unreachable

(* A faulty variant of FileExtension: the None arm is missing *)
FileExtensionNoNoneArm(active) ==
    IF active.some /\ active.val.tag = "File"
    THEN IF active.val.extension.some
         THEN Value(String(active.val.extension.val)) ELSE Value(Null)
    ELSE Unreachable

(* A faulty variant of FileExtension: an absent extension becomes "" *)
FileExtensionEmptyForNone(active) ==
    IF ~active.some THEN Value(Null)
    ELSE IF active.val.tag = "File"
         THEN IF active.val.extension.some
              THEN Value(String(active.val.extension.val)) ELSE Value(String(<<>>))
    ELSE Unreachable

FileExtension(active) ==
    IF ~active.some THEN Value(Null)
    ELSE IF active.val.tag = "File"
         THEN IF active.val.extension.some
              THEN Value(String(active.val.extension.val)) ELSE Value(Null)
    ELSE Unreachable

FileTypename(active) ==
    IF ~active.some THEN Value(Null) ELSE Value(String(FileStr))

(* A faulty variant of PropertyKnown: File has a catch-all arm *)
PropertyKnownAnyFileProperty(type_name, property_name) ==
    \/ type_name = "Directory" /\ property_name \in {"name", "path", "__typename"}
    \/ type_name = "File"

(* The match of resolve_property on (type_name, property_name): TRUE when an *)
(* arm other than todo!() is taken                                          *)
PropertyKnown(type_name, property_name) ==
    \/ type_name = "Directory" /\ property_name \in {"name", "path", "__typename"}
    \/ type_name = "File" /\ property_name \in {"name", "path", "extension", "__typename"}

PropertyClosure(type_name, property_name, active) ==
    IF type_name = "Directory"
    THEN CASE property_name = "name" -> DirectoryName(active)
           [] property_name = "path" -> DirectoryPath(active)
           [] OTHER -> DirectoryTypename(active)
    ELSE CASE property_name = "name" -> FileName(active)
           [] property_name = "path" -> FilePath(active)
           [] property_name = "extension" -> FileExtension(active)
           [] OTHER -> FileTypename(active)

NoPropIter ==
    [state |-> "none", type_name |-> "", property_name |-> "",
     contexts |-> <<>>, input |-> <<>>]

-----------------------------------------------------------------------------
(* The file systems and the inputs of the model *)

OriginPath == <<"r">>

NameA == <<"a">>

NameB == <<"b">>

NameC == <<"c">>

NameH == <<"H">>

XTxt == <<"x", ".", "t", "x", "t">>

ABC == <<"a", ".", "b", ".", "c">>

GitIgnore == <<".", "g", "i", "t", "i", "g", "n", "o", "r", "e">>

TrailingDot == <<"f", ".">>

(* root/ holds the directory a/ (holding the file x.txt) and the file b *)
FsTree ==
    (OriginPath :> <<Entry(NameA, "dir"), Entry(NameB, "file")>>)
    @@ (JoinPath(OriginPath, NameA) :> <<Entry(XTxt, "file")>>)

(* root/ holds the directory .git/ (holding the file H), a directory c/ that *)
(* cannot be opened, and a regular file named target                         *)
FsMixed ==
    (OriginPath :> <<Entry(DotGit, "dir"), Entry(NameC, "dir"), Entry(Target, "file")>>)
    @@ (JoinPath(OriginPath, DotGit) :> <<Entry(NameH, "file")>>)

FileSystems == {FsTree, FsMixed}

EdgeNames == {"out_Directory_ContainsFile", "out_Directory_Subdirectory", "out_File_Other"}

TypeNames == {"Directory", "File", "Symlink"}

PropertyNames == {"name", "path", "extension", "__typename", "size"}

StartEdgeNames == {"OriginDirectory", "OtherDirectory"}

(* The names and the entries the single-directory listings are drawn from *)
ScanNames == {DotGit, DotVscode, Target, NameB, XTxt, ABC, GitIgnore, TrailingDot}

ScanEntries ==
    {Entry(n, k) : n \in ScanNames, k \in {"file", "dir"}}
    \cup {Entry(NameB, "other"), Entry(NameB, "meta_err"), ReadErr,
          NonUtf8Entry(NameB, "file"), NonUtf8Entry(NameB, "dir")}

Listings == UNION {[1..k -> ScanEntries] : k \in 0..MaxListing}

ScanParents == {OriginVertex, DirectoryVertex(NameA, NameA)}

(* The vertices property resolution is tried on *)
PropVertices ==
    {DirectoryVertex(NameA, NameA),
     FileVertex(XTxt, Some(<<"t", "x", "t">>), JoinPath(NameA, XTxt)),
     FileVertex(NameB, None, NameB)}

-----------------------------------------------------------------------------
(* The state after FilesystemInterpreter::new(origin) *)

Init ==
    /\ origin = OriginPath
    /\ fs \in FileSystems
    /\ status = "ok"
    /\ panic_at = ""
    /\ origin_iter = NoOriginIter
    /\ origin_out = <<>>
    /\ resolver = NoResolver
    /\ pairs = <<>>
    /\ handles = 0
    /\ opens = 0
    /\ reached = {}
    /\ prop_iter = NoPropIter
    /\ prop_out = <<>>

Panic(site) ==
    /\ status' = "panicked"
    /\ panic_at' = site

(* resolve_starting_vertices(edge_name, parameters) *)
ResolveStartingVertices(edge_name, parameters_empty) ==
    /\ status = "ok"
    /\ origin_iter.state = "none"
    /\ IF edge_name # "OriginDirectory"
       THEN Panic("assert_edge_name") /\ UNCHANGED origin_iter
       ELSE IF ~parameters_empty
       THEN Panic("assert_parameters") /\ UNCHANGED origin_iter
       ELSE origin_iter' = NewOriginIter /\ UNCHANGED <<status, panic_at>>
    /\ UNCHANGED <<origin, fs, origin_out, resolver, pairs, handles, opens,
                   reached, prop_iter, prop_out>>

(* One pull on the sequence resolve_starting_vertices returned *)
OriginNext ==
    /\ status = "ok"
    /\ origin_iter.state = "live"
    /\ Len(origin_out) < MaxOriginPulls
    /\ LET r == OriginIterNext(origin_iter) IN
       /\ origin_iter' = r.iter
       /\ origin_out' = Append(origin_out, r.item)
       /\ reached' = IF r.item.some THEN reached \cup {r.item.val} ELSE reached
    /\ UNCHANGED <<origin, fs, status, panic_at, resolver, pairs, handles, opens,
                   prop_iter, prop_out>>

(* resolve_neighbors(contexts, type_name, edge_name, ..) *)
ResolveNeighbors(contexts, type_name, edge_name) ==
    /\ status = "ok"
    /\ resolver.state = "none"
    /\ IF type_name = "Directory" /\ edge_name = "out_Directory_ContainsFile"
       THEN /\ resolver' = NewResolver(contexts, "directory_contains_file_handler")
            /\ UNCHANGED <<status, panic_at>>
       ELSE IF type_name = "Directory" /\ edge_name = "out_Directory_Subdirectory"
       THEN /\ resolver' = NewResolver(contexts, "directory_subdirectory_handler")
            /\ UNCHANGED <<status, panic_at>>
       ELSE Panic("unimplemented") /\ UNCHANGED resolver
    /\ UNCHANGED <<origin, fs, origin_iter, origin_out, pairs, handles, opens,
                   reached, prop_iter, prop_out>>

(* A faulty variant of OpenScan: a directory that does not open is answered *)
(* with an empty neighbor sequence                                          *)
OpenScanDegrades(context, directory) ==
    /\ opens' = opens + 1
    /\ UNCHANGED <<status, panic_at>>
    /\ IF ~ReadDirOk(fs, ScanPath(origin, directory))
       THEN /\ pairs' = Append(pairs, EmptyPair(context))
            /\ UNCHANGED handles
       ELSE /\ pairs' = Append(pairs,
                          ScanPair(context, HandlerKind(resolver.edge_resolver),
                                   directory, ScanPath(origin, directory)))
            /\ handles' = handles + 1

(* A faulty variant of OpenScan: a directory a delivered pair already has    *)
(* open is not opened again                                                  *)
OpenScanCached(context, directory) ==
    IF ~ReadDirOk(fs, ScanPath(origin, directory))
    THEN /\ Panic("read_dir_unwrap")
         /\ opens' = opens + 1
         /\ UNCHANGED <<pairs, handles>>
    ELSE /\ pairs' = Append(pairs,
                       ScanPair(context, HandlerKind(resolver.edge_resolver),
                                directory, ScanPath(origin, directory)))
         /\ IF \E i \in DOMAIN pairs : pairs[i].directory = Some(directory)
            THEN UNCHANGED <<handles, opens>>
            ELSE handles' = handles + 1 /\ opens' = opens + 1
         /\ UNCHANGED <<status, panic_at>>

(* XIterator::new(origin, directory_vertex), called by the handler for a     *)
(* Directory vertex: fs::read_dir(buf).unwrap() is made once, and the pair   *)
(* is returned only when the directory opened                                *)
OpenScan(context, directory) ==
    IF ~ReadDirOk(fs, ScanPath(origin, directory))
    THEN /\ Panic("read_dir_unwrap")
         /\ opens' = opens + 1
         /\ UNCHANGED <<pairs, handles>>
    ELSE /\ pairs' = Append(pairs,
                       ScanPair(context, HandlerKind(resolver.edge_resolver),
                                directory, ScanPath(origin, directory)))
         /\ handles' = handles + 1
         /\ opens' = opens + 1
         /\ UNCHANGED <<status, panic_at>>

(* EdgeResolverIterator::next, with the handler and the scan constructor it *)
(* calls for a present active vertex                                        *)
EdgeResolverNext ==
    /\ status = "ok"
    /\ resolver.state = "live"
    /\ IF resolver.contexts = <<>>
       THEN /\ resolver' = [resolver EXCEPT !.state = "exhausted"]
            /\ UNCHANGED <<status, panic_at, pairs, handles, opens>>
       ELSE LET n == ContextsNext(resolver.contexts)
                context == n.item
                active == context.active_vertex
            IN /\ resolver' = [resolver EXCEPT !.contexts = n.rest]
               /\ IF ~active.some
                  THEN /\ pairs' = Append(pairs, EmptyPair(context))
                       /\ UNCHANGED <<status, panic_at, handles, opens>>
                  ELSE IF active.val.tag # "Directory"
                  THEN /\ Panic("unreachable")
                       /\ UNCHANGED <<pairs, handles, opens>>
                  ELSE OpenScan(context, active.val)
    /\ UNCHANGED <<origin, fs, origin_iter, origin_out, reached, prop_iter, prop_out>>

(* next() of the scan behind the i-th pair *)
ScanNext(scan) ==
    IF scan.kind = "file"
    THEN FileIterNext(scan.directory.val, ReadDirListing(fs, scan.path), scan.pos)
    ELSE IF scan.kind = "subdir"
    THEN SubdirIterNext(scan.directory.val, ReadDirListing(fs, scan.path), scan.pos)
    ELSE EndOfScan(0)

(* One pull on the neighbor sequence of the i-th pair *)
NeighborNext(i) ==
    /\ status = "ok"
    /\ i \in DOMAIN pairs
    /\ ~pairs[i].dropped
    /\ ~pairs[i].done
    /\ LET r == ScanNext(pairs[i]) IN
       IF r.outcome = "Panic"
       THEN /\ Panic("to_str_unwrap")
            /\ pairs' = [pairs EXCEPT ![i].pos = r.pos]
            /\ UNCHANGED reached
       ELSE IF r.outcome = "Some"
       THEN /\ pairs' = [pairs EXCEPT ![i].pos = r.pos,
                                      ![i].yielded = Append(@, r.vertex.val)]
            /\ reached' = reached \cup {r.vertex.val}
            /\ UNCHANGED <<status, panic_at>>
       ELSE /\ pairs' = [pairs EXCEPT ![i].pos = r.pos, ![i].done = TRUE]
            /\ UNCHANGED <<status, panic_at, reached>>
    /\ UNCHANGED <<origin, fs, origin_iter, origin_out, resolver, handles, opens,
                   prop_iter, prop_out>>

(* The interpreter drops the neighbor sequence of the i-th pair *)
DropScan(i) ==
    /\ status = "ok"
    /\ i \in DOMAIN pairs
    /\ ~pairs[i].dropped
    /\ pairs' = [pairs EXCEPT ![i].dropped = TRUE]
    /\ handles' = handles - ReleasedHandles(pairs[i])
    /\ UNCHANGED <<origin, fs, status, panic_at, origin_iter, origin_out, resolver,
                   opens, reached, prop_iter, prop_out>>

(* The interpreter drops the resolver, every pair it was given being dropped *)
DropResolver ==
    /\ status = "ok"
    /\ resolver.state # "none"
    /\ \A i \in DOMAIN pairs : pairs[i].dropped
    /\ resolver' = NoResolver
    /\ pairs' = <<>>
    /\ opens' = 0
    /\ UNCHANGED <<origin, fs, status, panic_at, origin_iter, origin_out, handles,
                   reached, prop_iter, prop_out>>

(* The contexts the interpreter can build: a vertex it was handed, or none *)
ActiveChoices == {None} \cup {Some(v) : v \in reached}

Next ==
    \/ \E e \in StartEdgeNames, p \in BOOLEAN : ResolveStartingVertices(e, p)
    \/ OriginNext
    \/ /\ resolver.state = "none"
       /\ \E c \in ContextStreams(ActiveChoices, MaxContexts), t \in TypeNames, e \in EdgeNames :
             ResolveNeighbors(c, t, e)
    \/ EdgeResolverNext
    \/ \E i \in DOMAIN pairs : NeighborNext(i)
    \/ \E i \in DOMAIN pairs : DropScan(i)
    \/ DropResolver

Spec == Init /\ [][Next]_vars

-----------------------------------------------------------------------------
(* Property resolution *)

(* resolve_property(contexts, type_name, property_name, ..): the match on the *)
(* two names is made at the call, the closure runs at each pull               *)
ResolveProperty(contexts, type_name, property_name) ==
    /\ status = "ok"
    /\ prop_iter.state = "none"
    /\ IF PropertyKnown(type_name, property_name)
       THEN /\ prop_iter' = [state |-> "live", type_name |-> type_name,
                             property_name |-> property_name,
                             contexts |-> contexts, input |-> contexts]
            /\ UNCHANGED <<status, panic_at>>
       ELSE Panic("todo") /\ UNCHANGED prop_iter
    /\ UNCHANGED <<origin, fs, origin_iter, origin_out, resolver, pairs, handles,
                   opens, reached, prop_out>>

(* One pull on the sequence resolve_property returned: contexts.map(closure) *)
PropertyNext ==
    /\ status = "ok"
    /\ prop_iter.state = "live"
    /\ IF prop_iter.contexts = <<>>
       THEN /\ prop_iter' = [prop_iter EXCEPT !.state = "exhausted"]
            /\ UNCHANGED <<status, panic_at, prop_out>>
       ELSE LET n == ContextsNext(prop_iter.contexts)
                r == PropertyClosure(prop_iter.type_name, prop_iter.property_name,
                                     n.item.active_vertex)
            IN /\ prop_iter' = [prop_iter EXCEPT !.contexts = n.rest]
               /\ IF r.ok
                  THEN /\ prop_out' = Append(prop_out, [ctx |-> n.item, value |-> r.value])
                       /\ UNCHANGED <<status, panic_at>>
                  ELSE Panic("unreachable") /\ UNCHANGED prop_out
    /\ UNCHANGED <<origin, fs, origin_iter, origin_out, resolver, pairs, handles,
                   opens, reached>>

(* resolve_coercion(contexts, type_name, coerce_to_type, ..) *)
ResolveCoercion(contexts, type_name, coerce_to_type) ==
    /\ status = "ok"
    /\ prop_iter.state = "none"
    /\ Panic("todo_coercion")
    /\ UNCHANGED <<origin, fs, origin_iter, origin_out, resolver, pairs, handles,
                   opens, reached, prop_iter, prop_out>>

PropChoices == {None} \cup {Some(v) : v \in PropVertices}

NextProperty ==
    \/ /\ prop_iter.state = "none"
       /\ \E c \in ContextStreams(PropChoices, MaxPropContexts),
             t \in TypeNames, p \in PropertyNames : ResolveProperty(c, t, p)
    \/ PropertyNext
    \/ /\ prop_iter.state = "none"
       /\ \E c \in ContextStreams(PropChoices, MaxPropContexts),
             t \in TypeNames, u \in TypeNames : ResolveCoercion(c, t, u)

SpecProperty == Init /\ [][NextProperty]_vars

-----------------------------------------------------------------------------
(* One directory with an arbitrary listing, and a resolver that was just     *)
(* given one context whose active vertex is that directory                   *)

Handlers == {"directory_contains_file_handler", "directory_subdirectory_handler"}

InitScan ==
    /\ origin = OriginPath
    /\ \E d \in ScanParents, l \in Listings, h \in Handlers :
          /\ fs = (RealPath(ScanPath(OriginPath, d)) :> l)
          /\ resolver = NewResolver(<<Ctx(1, Some(d))>>, h)
          /\ reached = {d}
    /\ status = "ok"
    /\ panic_at = ""
    /\ origin_iter = NoOriginIter
    /\ origin_out = <<>>
    /\ pairs = <<>>
    /\ handles = 0
    /\ opens = 0
    /\ prop_iter = NoPropIter
    /\ prop_out = <<>>

NextScan ==
    \/ EdgeResolverNext
    \/ \E i \in DOMAIN pairs : NeighborNext(i)
    \/ \E i \in DOMAIN pairs : DropScan(i)

SpecScan == InitScan /\ [][NextScan]_vars

-----------------------------------------------------------------------------
(* One of the three resolution calls, with every type, property and edge     *)
(* name, on context streams of every length from zero, and the pulls on the  *)
(* sequence it returned                                                      *)

NextDispatch ==
    \/ /\ prop_iter.state = "none" /\ resolver.state = "none"
       /\ \E c \in ContextStreams(PropChoices, MaxPropContexts),
             t \in TypeNames, p \in PropertyNames : ResolveProperty(c, t, p)
    \/ /\ prop_iter.state = "none" /\ resolver.state = "none"
       /\ \E c \in ContextStreams(PropChoices, MaxPropContexts),
             t \in TypeNames, e \in EdgeNames : ResolveNeighbors(c, t, e)
    \/ /\ prop_iter.state = "none" /\ resolver.state = "none"
       /\ \E c \in ContextStreams(PropChoices, MaxPropContexts),
             t \in TypeNames, u \in TypeNames : ResolveCoercion(c, t, u)
    \/ PropertyNext
    \/ EdgeResolverNext

SpecDispatch == Init /\ [][NextDispatch]_vars

-----------------------------------------------------------------------------
(* Traversal of a tree that holds excluded names at two levels: root/ holds  *)
(* the directory .vscode/ (holding the file H), the directory a/ and a       *)
(* regular file named target; a/ holds the directory target/ (holding the    *)
(* file H) and a regular file named .git                                     *)

FsNested ==
    (OriginPath :> <<Entry(DotVscode, "dir"), Entry(NameA, "dir"), Entry(Target, "file")>>)
    @@ (JoinPath(OriginPath, DotVscode) :> <<Entry(NameH, "file")>>)
    @@ (JoinPath(OriginPath, NameA) :> <<Entry(Target, "dir"), Entry(DotGit, "file")>>)
    @@ (JoinPath(JoinPath(OriginPath, NameA), Target) :> <<Entry(NameH, "file")>>)

InitWalk ==
    /\ origin = OriginPath
    /\ fs = FsNested
    /\ status = "ok"
    /\ panic_at = ""
    /\ origin_iter = NoOriginIter
    /\ origin_out = <<>>
    /\ resolver = NoResolver
    /\ pairs = <<>>
    /\ handles = 0
    /\ opens = 0
    /\ reached = {}
    /\ prop_iter = NoPropIter
    /\ prop_out = <<>>

SpecWalk == InitWalk /\ [][Next]_vars

-----------------------------------------------------------------------------
(* Properties *)

(* C1: the per-context neighbor resolver preserves count and order.  The     *)
(* i-th pair it returned carries the i-th context of the stream it was       *)
(* given, whatever the paired sequences have yielded so far; once it has     *)
(* returned end-of-sequence it has returned exactly one pair per input       *)
(* context; a context with no active vertex is paired with a sequence that   *)
(* is empty.                                                                 *)
C1_ResolverCountAndOrder ==
    /\ Len(pairs) <= Len(resolver.input)
    /\ \A i \in DOMAIN pairs : pairs[i].ctx = resolver.input[i]
    /\ resolver.state = "exhausted" => Len(pairs) = Len(resolver.input)
    /\ \A i \in DOMAIN pairs :
          ~pairs[i].ctx.active_vertex.some
             => pairs[i].kind = "empty" /\ pairs[i].yielded = <<>>

(* C1 witness: a stream of two contexts, the first without an active vertex, *)
(* pulled to exhaustion, the second pair having yielded a neighbor           *)
C1_Witness ==
    /\ resolver.state = "exhausted"
    /\ Len(pairs) = 2
    /\ ~pairs[1].ctx.active_vertex.some
    /\ pairs[1].done
    /\ pairs[2].ctx.active_vertex.some
    /\ Len(pairs[2].yielded) >= 1

(* The listing a scan reads *)
ListingOf(scan) == ReadDirListing(fs, scan.path)

(* C2: the subdirectory scan never yields an entry named .git, .vscode or    *)
(* target, whatever the listing holds, at any pull.                          *)
C2_SubdirNeverYieldsExcluded ==
    \A i \in DOMAIN pairs :
        pairs[i].kind = "subdir" =>
            \A j \in DOMAIN pairs[i].yielded :
                pairs[i].yielded[j].name \notin {DotGit, DotVscode, Target}

(* C2 witness: a subdirectory scan was pulled to its end over a listing that *)
(* holds a directory named target, and yielded another directory             *)
C2_Witness ==
    \E i \in DOMAIN pairs :
        /\ pairs[i].kind = "subdir"
        /\ pairs[i].done
        /\ Len(pairs[i].yielded) = 1
        /\ \E k \in DOMAIN ListingOf(pairs[i]) :
              ListingOf(pairs[i])[k] = Entry(Target, "dir")

(* C3 as stated: every file the file-listing scan yields has                 *)
(* path = parent.path + "/" + name, the root (empty path) included.          *)
C3_PathIsParentSlashName ==
    \A i \in DOMAIN pairs :
        pairs[i].kind = "file" =>
            \A j \in DOMAIN pairs[i].yielded :
                pairs[i].yielded[j].path =
                    pairs[i].directory.val.path \o <<"/">> \o pairs[i].yielded[j].name

(* C3 amended: every file the file-listing scan yields has                   *)
(* path = parent.path + "/" + name when the parent's path is not empty, and  *)
(* path = name when the parent is the root, whose path is empty.             *)
C3_PathJoin ==
    \A i \in DOMAIN pairs :
        pairs[i].kind = "file" =>
            \A j \in DOMAIN pairs[i].yielded :
                pairs[i].yielded[j].path =
                    IF pairs[i].directory.val.path = <<>>
                    THEN pairs[i].yielded[j].name
                    ELSE pairs[i].directory.val.path \o <<"/">>
                             \o pairs[i].yielded[j].name

(* C3 witness: the file-listing scan of the root yielded a file *)
C3_Witness ==
    \E i \in DOMAIN pairs :
        /\ pairs[i].kind = "file"
        /\ pairs[i].directory.val.path = <<>>
        /\ Len(pairs[i].yielded) >= 1

(* Whether the string s holds the character c *)
HasChar(s, c) == \E k \in DOMAIN s : s[k] = c

(* C4 as stated: the extension of every file the file-listing scan yields is *)
(* the substring of its name after the last '.', and is absent exactly when  *)
(* the name holds no '.'.                                                    *)
C4_ExtensionAfterLastDot ==
    \A i \in DOMAIN pairs :
        pairs[i].kind = "file" =>
            \A j \in DOMAIN pairs[i].yielded :
                LET f == pairs[i].yielded[j] IN
                /\ f.extension.some <=> HasChar(f.name, ".")
                /\ f.extension.some =>
                      /\ ~HasChar(f.extension.val, ".")
                      /\ Len(f.extension.val) < Len(f.name)
                      /\ f.name[Len(f.name) - Len(f.extension.val)] = "."
                      /\ SubSeq(f.name, Len(f.name) - Len(f.extension.val) + 1,
                                Len(f.name)) = f.extension.val

(* C4 amended: the extension is absent exactly when the name holds no '.'    *)
(* after its first character; otherwise it is the substring of the name      *)
(* after the last '.', which is empty for a name that ends with '.'.         *)
C4_Extension ==
    \A i \in DOMAIN pairs :
        pairs[i].kind = "file" =>
            \A j \in DOMAIN pairs[i].yielded :
                LET f == pairs[i].yielded[j] IN
                /\ f.extension.some <=> HasChar(Tail(f.name), ".")
                /\ f.extension.some =>
                      /\ ~HasChar(f.extension.val, ".")
                      /\ Len(f.extension.val) < Len(f.name)
                      /\ f.name[Len(f.name) - Len(f.extension.val)] = "."
                      /\ SubSeq(f.name, Len(f.name) - Len(f.extension.val) + 1,
                                Len(f.name)) = f.extension.val

(* C4 witness: the scan yielded .gitignore, and a file whose name ends       *)
(* with '.'                                                                  *)
C4_Witness ==
    \E i \in DOMAIN pairs :
        /\ pairs[i].kind = "file"
        /\ Len(pairs[i].yielded) = 2
        /\ pairs[i].yielded[1].name = GitIgnore
        /\ pairs[i].yielded[2].name = TrailingDot

(* The context whose pull a panic of the property iterator happened in *)
PropPulled == prop_iter.input[Len(prop_iter.input) - Len(prop_iter.contexts)]

(* C5: property resolution on a context without an active vertex yields      *)
(* null, for every declared property of both declared types, and never       *)
(* aborts for such a context.                                                *)
C5_AbsentVertexYieldsNull ==
    /\ \A k \in DOMAIN prop_out :
          ~prop_out[k].ctx.active_vertex.some => prop_out[k].value = [fv |-> "Null"]
    /\ panic_at = "unreachable" => PropPulled.active_vertex.some
    /\ prop_iter.state = "exhausted" => Len(prop_out) = Len(prop_iter.input)

(* C5 witness: File.extension was resolved for two contexts without an       *)
(* active vertex                                                             *)
C5_Witness ==
    /\ prop_iter.type_name = "File"
    /\ prop_iter.property_name = "extension"
    /\ Len(prop_out) = 2
    /\ \A k \in DOMAIN prop_out : ~prop_out[k].ctx.active_vertex.some

(* C6 as stated: a present active vertex whose variant differs from the      *)
(* declared type name always aborts property resolution, so no (context,     *)
(* value) pair is ever produced for such a context.                          *)
C6_MismatchAlwaysAborts ==
    \A k \in DOMAIN prop_out :
        prop_out[k].ctx.active_vertex.some =>
            prop_out[k].ctx.active_vertex.val.tag = prop_iter.type_name

(* C7: __typename with declared type Directory yields the string            *)
(* "Directory" for every context with a present active vertex, and with     *)
(* declared type File the string "File"; such a pull never aborts.          *)
C7_TypenameLiteral ==
    prop_iter.property_name = "__typename" =>
        /\ panic_at # "unreachable"
        /\ Len(prop_out) = Len(prop_iter.input) - Len(prop_iter.contexts)
        /\ \A k \in DOMAIN prop_out :
              prop_out[k].ctx.active_vertex.some =>
                  prop_out[k].value =
                      IF prop_iter.type_name = "Directory"
                      THEN [fv |-> "String",
                            s |-> <<"D", "i", "r", "e", "c", "t", "o", "r", "y">>]
                      ELSE [fv |-> "String", s |-> <<"F", "i", "l", "e">>]

(* C7 witness: Directory.__typename was resolved for a Directory vertex *)
C7_Witness ==
    /\ prop_iter.type_name = "Directory"
    /\ prop_iter.property_name = "__typename"
    /\ \E k \in DOMAIN prop_out :
          /\ prop_out[k].ctx.active_vertex.some
          /\ prop_out[k].ctx.active_vertex.val.tag = "Directory"
          /\ prop_out[k].value = String(DirectoryStr)

(* What resolve_starting_vertices has to do with its arguments *)
StartCallContract(edge_name, parameters_empty) ==
    IF edge_name = "OriginDirectory" /\ parameters_empty
    THEN /\ status' = "ok"
         /\ origin_iter' = [state |-> "live", produced |-> FALSE]
         /\ origin_out' = <<>>
    ELSE /\ status' = "panicked"
         /\ origin_iter' = origin_iter

(* C8: the sequence resolve_starting_vertices returns for OriginDirectory    *)
(* with no parameters yields the Directory vertex named <origin> with the    *)
(* empty path at the first pull and end-of-sequence at every later pull; a   *)
(* call with another edge name or with parameters aborts.                    *)
C8_OriginYieldsOnce ==
    /\ [](\A k \in DOMAIN origin_out :
             origin_out[k] =
                 IF k = 1
                 THEN [some |-> TRUE,
                       val |-> [tag |-> "Directory",
                                name |-> <<"<", "o", "r", "i", "g", "i", "n", ">">>,
                                path |-> <<>>]]
                 ELSE [some |-> FALSE])
    /\ [][\A e \in StartEdgeNames, p \in BOOLEAN :
             ResolveStartingVertices(e, p) => StartCallContract(e, p)]_vars

(* C8 witness: the origin sequence was pulled MaxOriginPulls times *)
C8_Witness ==
    /\ origin_iter.state = "live"
    /\ Len(origin_out) = MaxOriginPulls
    /\ origin_out[1].some
    /\ ~origin_out[MaxOriginPulls].some

(* The vertices of the end-to-end scenario *)
VertexA == [tag |-> "Directory", name |-> <<"a">>, path |-> <<"a">>]

VertexB == [tag |-> "File", name |-> <<"b">>, extension |-> [some |-> FALSE],
            path |-> <<"b">>]

VertexXTxt ==
    [tag |-> "File", name |-> <<"x", ".", "t", "x", "t">>,
     extension |-> [some |-> TRUE, val |-> <<"t", "x", "t">>],
     path |-> <<"a", "/", "x", ".", "t", "x", "t">>]

(* Whether s is a prefix of t *)
IsPrefix(s, t) == Len(s) <= Len(t) /\ SubSeq(t, 1, Len(s)) = s

(* What a scan of the given kind over the given directory must yield *)
YieldsExactly(kind, directory, expected) ==
    \A i \in DOMAIN pairs :
        (pairs[i].kind = kind /\ pairs[i].directory = Some(directory)) =>
            /\ IsPrefix(pairs[i].yielded, expected)
            /\ pairs[i].done => pairs[i].yielded = expected

(* C9: on root/{a/{x.txt}, b}, the subdirectory scan of the origin vertex    *)
(* yields exactly the directory a, the file-listing scan of a yields exactly *)
(* the file x.txt with extension txt and path a/x.txt, and the file-listing  *)
(* scan of the origin vertex yields exactly the file b with no extension and *)
(* path b: only direct children are yielded.                                 *)
C9_EndToEnd ==
    fs = FsTree =>
        /\ YieldsExactly("subdir", OriginVertex, <<VertexA>>)
        /\ YieldsExactly("file", VertexA, <<VertexXTxt>>)
        /\ YieldsExactly("file", OriginVertex, <<VertexB>>)
        /\ YieldsExactly("subdir", VertexA, <<>>)

(* C9 witness: the origin vertex came from the origin sequence, a came from  *)
(* the subdirectory scan, and the file-listing scans of a and of the origin  *)
(* were pulled to their ends                                                 *)
C9_Witness ==
    /\ fs = FsTree
    /\ Len(origin_out) >= 1
    /\ VertexA \in reached
    /\ Len(pairs) = 2
    /\ pairs[1].kind = "file" /\ pairs[1].directory = Some(VertexA)
    /\ pairs[1].done /\ pairs[1].yielded = <<VertexXTxt>>
    /\ pairs[2].kind = "file" /\ pairs[2].directory = Some(OriginVertex)
    /\ pairs[2].done /\ pairs[2].yielded = <<VertexB>>

(* The scans that hold a directory handle and were not dropped *)
LiveScans == {i \in DOMAIN pairs : pairs[i].kind # "empty" /\ ~pairs[i].dropped}

(* C10: the number of open directory handles equals the number of scans that *)
(* are still live, after any sequence of constructions, pulls and drops, so  *)
(* that no handle stays open once every scan is dropped, exhausted or not.   *)
C10_HandlesAreLiveScans ==
    /\ handles = Cardinality(LiveScans)
    /\ (\A i \in DOMAIN pairs : pairs[i].dropped) => handles = 0

(* C10 witness: two scans were dropped, one before its first pull and one    *)
(* after a pull that did not exhaust it, and no handle is open               *)
C10_Witness ==
    /\ status = "ok"
    /\ Len(pairs) = 2
    /\ \A i \in DOMAIN pairs :
          pairs[i].kind # "empty" /\ pairs[i].dropped /\ ~pairs[i].done
    /\ pairs[1].pos = 0
    /\ Len(pairs[2].yielded) = 1
    /\ handles = 0

(* C11: a file whose name holds no '.' is yielded without an extension, and *)
(* the file a.b.c is yielded with the extension c.                           *)
C11_NoDotNoExtension ==
    \A i \in DOMAIN pairs :
        pairs[i].kind = "file" =>
            \A j \in DOMAIN pairs[i].yielded :
                LET f == pairs[i].yielded[j] IN
                /\ ~HasChar(f.name, ".") => f.extension = [some |-> FALSE]
                /\ f.name = <<"a", ".", "b", ".", "c">>
                      => f.extension = [some |-> TRUE, val |-> <<"c">>]

(* C11 witness: the scan yielded the file b and then the file a.b.c *)
C11_Witness ==
    \E i \in DOMAIN pairs :
        /\ pairs[i].kind = "file"
        /\ Len(pairs[i].yielded) = 2
        /\ pairs[i].yielded[1].name = <<"b">>
        /\ pairs[i].yielded[2].name = <<"a", ".", "b", ".", "c">>

(* The declared (type, property) and (type, edge) pairs *)
DeclaredProperties ==
    {<<"Directory", "name">>, <<"Directory", "path">>, <<"Directory", "__typename">>,
     <<"File", "name">>, <<"File", "path">>, <<"File", "extension">>,
     <<"File", "__typename">>}

DeclaredEdges ==
    {<<"Directory", "out_Directory_ContainsFile">>,
     <<"Directory", "out_Directory_Subdirectory">>}

(* The call aborted: it returned no sequence and took no context *)
AbortedAtCall ==
    /\ status' = "panicked"
    /\ UNCHANGED <<prop_iter, prop_out, resolver, pairs, opens, handles>>

(* C12: resolve_property with an undeclared (type, property) pair,           *)
(* resolve_neighbors with an undeclared (type, edge) pair and every          *)
(* resolve_coercion abort at the call itself, whatever the context stream    *)
(* (the empty one included), before any context is pulled; a sequence is     *)
(* returned only for declared pairs.                                         *)
C12_DispatchAbortsAtCall ==
    /\ [](/\ prop_iter.state # "none"
               => <<prop_iter.type_name, prop_iter.property_name>> \in DeclaredProperties
          /\ panic_at \in {"todo", "todo_coercion", "unimplemented"}
               => /\ prop_iter.state = "none" /\ prop_out = <<>>
                  /\ resolver.state = "none" /\ pairs = <<>>)
    /\ [][/\ \A c \in ContextStreams(PropChoices, MaxPropContexts),
                t \in TypeNames, p \in PropertyNames :
                (ResolveProperty(c, t, p) /\ <<t, p>> \notin DeclaredProperties)
                    => AbortedAtCall
          /\ \A c \in ContextStreams(PropChoices, MaxPropContexts),
                t \in TypeNames, e \in EdgeNames :
                (ResolveNeighbors(c, t, e) /\ <<t, e>> \notin DeclaredEdges)
                    => AbortedAtCall
          /\ \A c \in ContextStreams(PropChoices, MaxPropContexts),
                t \in TypeNames, u \in TypeNames :
                ResolveCoercion(c, t, u) => AbortedAtCall]_vars

(* C12 witness: a call with an undeclared name has aborted *)
C12_Witness ==
    /\ status = "panicked"
    /\ panic_at = "unimplemented"
    /\ resolver.state = "none"
    /\ pairs = <<>>

(* The number of contexts the resolver has taken from its input stream *)
Consumed == Len(resolver.input) - Len(resolver.contexts)

(* Whether the directory of a Directory vertex can be opened *)
Opens(directory) ==
    RealPath(PathPush(PathPush(<<>>, origin), directory.path)) \in DOMAIN fs

(* C13: a directory that cannot be opened aborts the pull of the resolver    *)
(* that meets its context: the pair for that context is not returned, no     *)
(* empty or partial sequence stands in for it, the open is attempted once in *)
(* that pull, and the pairs delivered before are left as they were.          *)
C13_OpenFailureIsFatal ==
    /\ [](/\ panic_at = "read_dir_unwrap" =>
               /\ Consumed >= 1
               /\ resolver.input[Consumed].active_vertex.some
               /\ ~Opens(resolver.input[Consumed].active_vertex.val)
               /\ Len(pairs) = Consumed - 1
               /\ \A i \in DOMAIN pairs : pairs[i].ctx = resolver.input[i]
          /\ \A i \in DOMAIN pairs :
               /\ pairs[i].ctx.active_vertex.some <=> pairs[i].kind # "empty"
               /\ pairs[i].ctx.active_vertex.some
                    => Opens(pairs[i].ctx.active_vertex.val))
    /\ [][panic_at' = "read_dir_unwrap" =>
             /\ pairs' = pairs
             /\ reached' = reached
             /\ handles' = handles
             /\ opens' = opens + 1]_vars
    /\ [][status = "panicked" => UNCHANGED vars]_vars

(* C13 witness: the second context of a stream names a directory that does   *)
(* not open, after a pair with an open directory was delivered               *)
C13_Witness ==
    /\ panic_at = "read_dir_unwrap"
    /\ Len(pairs) = 1
    /\ pairs[1].kind # "empty"
    /\ Consumed = 2

(* C14: a pull of the resolver reads no directory entry.  The pair it        *)
(* returns for a present active vertex has its directory open and nothing    *)
(* read or yielded, the pairs returned before are untouched by it, and the   *)
(* position of a scan in its listing moves only in steps that are not pulls  *)
(* of the resolver.                                                          *)
C14_ResolverIsLazy ==
    [][/\ (resolver' # resolver /\ resolver'.state # "none" /\ resolver.state # "none") =>
            /\ Len(pairs') >= Len(pairs)
            /\ \A i \in DOMAIN pairs : pairs'[i] = pairs[i]
            /\ reached' = reached
            /\ Len(pairs') > Len(pairs) =>
                  LET new == pairs'[Len(pairs')] IN
                  /\ Len(pairs') = Len(pairs) + 1
                  /\ new.pos = 0 /\ new.yielded = <<>> /\ ~new.done
                  /\ new.ctx.active_vertex.some => handles' = handles + 1
       /\ \A i \in DOMAIN pairs :
            (i \in DOMAIN pairs' /\ pairs'[i].pos # pairs[i].pos) => resolver' = resolver
      ]_vars

(* C14 witness: two pairs were returned for directories that hold entries;   *)
(* both directories are open, the first sequence was pulled, and nothing of  *)
(* the second was read                                                       *)
C14_Witness ==
    /\ Len(pairs) = 2
    /\ pairs[1].kind # "empty" /\ pairs[2].kind # "empty"
    /\ handles = 2
    /\ pairs[1].pos > 0
    /\ pairs[2].pos = 0
    /\ Len(ListingOf(pairs[2])) > 0

(* The entries a scan has to yield: read successfully, metadata readable,    *)
(* and a regular file, or a directory not named .git, .vscode or target      *)
QualifiesFile(e) == e.kind = "file"

QualifiesSubdir(e) ==
    e.kind = "dir" /\ e.name \notin {<<".", "g", "i", "t">>,
                                     <<".", "v", "s", "c", "o", "d", "e">>,
                                     <<"t", "a", "r", "g", "e", "t">>}

Qualifies(kind, e) == IF kind = "file" THEN QualifiesFile(e) ELSE QualifiesSubdir(e)

(* How many of the first j items of listing l qualify *)
QualCount(kind, l, j) == Cardinality({m \in 1..j : Qualifies(kind, l[m])})

(* C15: a scan reads its listing only as far as its pulls need.  Before the  *)
(* first pull nothing is read; after k pulls that each yielded a vertex the  *)
(* items read are exactly those up to and including the k-th qualifying      *)
(* entry; a pull that finds no further qualifying entry reads to the end.    *)
C15_ScanReadsNoFurther ==
    \A i \in DOMAIN pairs :
        pairs[i].kind # "empty" =>
            LET l == ListingOf(pairs[i])
                k == Len(pairs[i].yielded)
                p == pairs[i].pos
            IN /\ p <= Len(l)
               /\ IF pairs[i].done
                  THEN p = Len(l) /\ QualCount(pairs[i].kind, l, p) = k
                  ELSE IF status = "panicked"
                  THEN /\ p >= 1
                       /\ Qualifies(pairs[i].kind, l[p])
                       /\ QualCount(pairs[i].kind, l, p) = k + 1
                  ELSE IF k = 0 THEN p = 0
                  ELSE /\ Qualifies(pairs[i].kind, l[p])
                       /\ QualCount(pairs[i].kind, l, p) = k

(* C15 witness: one pull yielded the first entry of a listing of two         *)
(* qualifying entries, and the second entry was not read                     *)
C15_Witness ==
    \E i \in DOMAIN pairs :
        /\ pairs[i].kind # "empty"
        /\ ~pairs[i].done
        /\ Len(pairs[i].yielded) = 1
        /\ pairs[i].pos = 1
        /\ Len(ListingOf(pairs[i])) = 2
        /\ Qualifies(pairs[i].kind, ListingOf(pairs[i])[2])

(* The names of a sequence of entries or of vertices *)
NamesOf(q) == [j \in DOMAIN q |-> q[j].name]

(* The names a scan of the given kind has to yield over listing l, in order *)
ExpectedNames(kind, l) ==
    IF kind = "file" THEN NamesOf(SelectSeq(l, QualifiesFile))
    ELSE NamesOf(SelectSeq(l, QualifiesSubdir))

(* C16 as stated: over every listing, a scan pulled until it gives no more   *)
(* has yielded exactly the qualifying entries, each once and in listing      *)
(* order; an entry that fails to read is skipped and hides no later one.     *)
C16_ScanYieldsExactlyQualifying ==
    \A i \in DOMAIN pairs :
        pairs[i].kind # "empty" =>
            /\ IsPrefix(NamesOf(pairs[i].yielded),
                        ExpectedNames(pairs[i].kind, ListingOf(pairs[i])))
            /\ (pairs[i].done \/ status = "panicked") =>
                   NamesOf(pairs[i].yielded) =
                       ExpectedNames(pairs[i].kind, ListingOf(pairs[i]))

(* C20 as stated: once a scan is constructed, no pull on it aborts, whatever *)
(* the kind, the metadata and the encoding of the name of each entry.        *)
C20_PullNeverAborts ==
    pairs # <<>> => status = "ok"

(* The names the subdirectory scan leaves out *)
ExcludedNames == {DotGit, DotVscode, Target}

(* Path p has segment x before its last segment: p starts with x/ or holds   *)
(* /x/ somewhere                                                             *)
HasInnerSegment(p, x) ==
    \/ /\ Len(p) > Len(x)
       /\ SubSeq(p, 1, Len(x) + 1) = x \o <<Slash>>
    \/ \E j \in 1..Len(p) :
          /\ j + Len(x) + 1 <= Len(p)
          /\ SubSeq(p, j, j + Len(x) + 1) = <<Slash>> \o x \o <<Slash>>

(* C17: excluded directories are unreachable for traversal.  No vertex       *)
(* reached from the origin over the two edges is a Directory named .git,     *)
(* .vscode or target, none has a path with one of these names as a segment   *)
(* before the last, and a file-listing scan pulled to its end has yielded    *)
(* every regular file of its directory, those with an excluded name too.     *)
C17_ExcludedUnreachable ==
    /\ \A v \in reached :
          /\ v.tag = "Directory" => v.name \notin ExcludedNames
          /\ \A x \in ExcludedNames : ~HasInnerSegment(v.path, x)
    /\ \A i \in DOMAIN pairs :
          (pairs[i].kind = "file" /\ pairs[i].done) =>
              \A j \in DOMAIN ListingOf(pairs[i]) :
                  ListingOf(pairs[i])[j].kind = "file" =>
                      \E k \in DOMAIN pairs[i].yielded :
                          /\ pairs[i].yielded[k].tag = "File"
                          /\ pairs[i].yielded[k].name = ListingOf(pairs[i])[j].name

(* C17 witness: the traversal reached the file target of the origin and the  *)
(* file .git of a/, and the subdirectory scan of a/, which holds only the    *)
(* directory target/, ended without a vertex                                 *)
C17_Witness ==
    /\ \E v \in reached : v.tag = "File" /\ v.name = Target /\ v.path = Target
    /\ \E v \in reached : v.tag = "File" /\ v.name = DotGit /\ v.path = JoinPath(NameA, DotGit)
    /\ \E i \in DOMAIN pairs :
          /\ pairs[i].kind = "subdir"
          /\ pairs[i].directory.val.name = NameA
          /\ pairs[i].done
          /\ pairs[i].yielded = <<>>

(* Every present active vertex of the stream has the variant type_name names *)
AllMatch(input, type_name) ==
    \A k \in DOMAIN input :
        input[k].active_vertex.some => input[k].active_vertex.val.tag = type_name

(* How many contexts the property sequence has taken from its input *)
PropConsumed == Len(prop_iter.input) - Len(prop_iter.contexts)

(* C18: for a recognized (type name, property name) pair resolve_property is *)
(* a one-to-one, order-preserving, lazy map over the context stream.  The    *)
(* k-th output carries the k-th input context unchanged; the contexts taken  *)
(* from the input are exactly as many as the outputs pulled, the rest of the *)
(* input being still in the stream; a stream whose present vertices match    *)
(* the declared type never aborts and, pulled to its end, has given one pair *)
(* per context; a File without an extension resolves `extension` to null.    *)
C18_PropertyMapIsLazyOneToOne ==
    /\ prop_iter.state # "none" =>
          /\ PropertyKnown(prop_iter.type_name, prop_iter.property_name)
          /\ \A k \in DOMAIN prop_out : prop_out[k].ctx = prop_iter.input[k]
          /\ prop_iter.contexts =
                SubSeq(prop_iter.input, PropConsumed + 1, Len(prop_iter.input))
          /\ status = "ok" => PropConsumed = Len(prop_out)
          /\ status = "panicked" => PropConsumed = Len(prop_out) + 1
          /\ AllMatch(prop_iter.input, prop_iter.type_name) =>
                /\ status = "ok"
                /\ prop_iter.state = "exhausted" =>
                      Len(prop_out) = Len(prop_iter.input)
          /\ \A k \in DOMAIN prop_out :
                LET active == prop_out[k].ctx.active_vertex IN
                (/\ prop_iter.type_name = "File"
                 /\ prop_iter.property_name = "extension"
                 /\ active.some
                 /\ active.val.tag = "File"
                 /\ ~active.val.extension.some) => prop_out[k].value = Null
    /\ prop_iter.state = "none" => prop_out = <<>>

(* C18 witness: File.extension was resolved to its end over the file b,      *)
(* which has no extension, followed by the file x.txt: the values are null   *)
(* and "txt", in this order                                                  *)
C18_Witness ==
    /\ prop_iter.state = "exhausted"
    /\ prop_iter.type_name = "File"
    /\ prop_iter.property_name = "extension"
    /\ Len(prop_out) = 2
    /\ prop_out[1].ctx.active_vertex = Some(FileVertex(NameB, None, NameB))
    /\ prop_out[1].value = Null
    /\ prop_out[2].value = String(<<"t", "x", "t">>)

(* How many of the first n contexts of a stream have an active vertex *)
PresentCount(input, n) ==
    Cardinality({k \in 1..n : input[k].active_vertex.some})

(* Pairs i and j hold scans of the same kind over the same Directory vertex *)
SameScan(i, j) ==
    /\ pairs[i].kind # "empty"
    /\ pairs[i].kind = pairs[j].kind
    /\ pairs[i].directory = pairs[j].directory

(* C19: scans made for different contexts are independent and nothing is     *)
(* cached.  The directory opens made by the resolver are as many as the      *)
(* contexts with an active vertex it has taken, so P once the stream of N    *)
(* ended, contexts that carry the same Directory vertex counting each; two   *)
(* scans of one directory each read it from its start, the one that is       *)
(* behind having yielded a prefix of the other; a pull on one neighbor       *)
(* sequence changes no other pair and no step changes the origin path.       *)
C19_ScansIndependentNothingCached ==
    /\ [](/\ origin = OriginPath
          /\ panic_at # "unreachable" =>
                opens = PresentCount(resolver.input, Consumed)
          /\ resolver.state = "exhausted" =>
                opens = PresentCount(resolver.input, Len(resolver.input))
          /\ \A i, j \in DOMAIN pairs :
                SameScan(i, j) =>
                    /\ pairs[i].pos <= pairs[j].pos =>
                          IsPrefix(pairs[i].yielded, pairs[j].yielded)
                    /\ pairs[i].pos = pairs[j].pos =>
                          pairs[i].yielded = pairs[j].yielded)
    /\ [][/\ origin' = origin
          /\ \A i \in DOMAIN pairs :
                (/\ i \in DOMAIN pairs'
                 /\ \/ pairs'[i].pos # pairs[i].pos
                    \/ pairs'[i].yielded # pairs[i].yielded
                    \/ pairs'[i].done # pairs[i].done) =>
                    /\ opens' = opens
                    /\ Len(pairs') = Len(pairs)
                    /\ \A j \in DOMAIN pairs : j # i => pairs'[j] = pairs[j]
         ]_vars

(* C19 witness: a stream of two contexts that carry the same Directory       *)
(* vertex ended with two opens; the first sequence has yielded a vertex and  *)
(* the second was not pulled                                                 *)
C19_Witness ==
    /\ resolver.state = "exhausted"
    /\ Len(resolver.input) = 2
    /\ resolver.input[1].active_vertex = resolver.input[2].active_vertex
    /\ opens = 2
    /\ Len(pairs) = 2
    /\ Len(pairs[1].yielded) >= 1
    /\ pairs[2].pos = 0
    /\ pairs[2].yielded = <<>>

====
